---- MODULE Spec2Model ----
(***************************************************************************)
(* Association declaration helpers of sequelize                            *)
(* (src/unnamed/part_001: associations/helpers.ts).                        *)
(*                                                                         *)
(* JavaScript values are tagged records so that "absent key", "key whose   *)
(* value is undefined", strings, booleans and objects stay distinct:       *)
(*   [t |-> "undefined"], [t |-> "string", s |-> ...],                     *)
(*   [t |-> "boolean", b |-> ...], [t |-> "object", o |-> f]               *)
(* where f is a function from the object's own keys to values.  An options *)
(* object is handled as its key function f.                                *)
(***************************************************************************)
EXTENDS Integers, Sequences, FiniteSets, TLC

\* ------------------------------------------------------------------ bounds
\* number of defineAssociation calls explored from the initial state
MaxCalls == 3

\* ------------------------------------------------------------ JS values
Undefined == [t |-> "undefined"]
Str(s) == [t |-> "string", s |-> s]
Bool(b) == [t |-> "boolean", b |-> b]
Obj(f) == [t |-> "object", o |-> f]
EmptyObject == << >>

\* property read o[k] / o?.k : undefined when the key is absent
Get(o, k) == IF k \in DOMAIN o THEN o[k] ELSE Undefined

\* a ?? b
Coalesce(a, b) == IF a = Undefined THEN b ELSE a

\* JS truthiness of the values used here
Truthy(v) ==
  CASE v.t = "undefined" -> FALSE
    [] v.t = "string" -> v.s # ""
    [] v.t = "boolean" -> v.b
    [] OTHER -> TRUE

\* { ...base, ...over } : later keys win
Spread(base, over) == over @@ base

\* lodash omit(o, key)
omit(o, key) == [k \in DOMAIN o \ {key} |-> o[k]]

\* lodash isEqual: deep structural equality (values are tagged, so TLA+
\* equality of the tagged values is structural equality of the JS values)
isEqual(a, b) == a = b

\* utils/object.js removeUndefined: drops the own keys whose value is undefined
removeUndefined(o) == [k \in {j \in DOMAIN o : o[j] # Undefined} |-> o[k]]

\* ------------------------------------------------ models and association types
AssociationTypes == {"BelongsTo", "HasOne", "HasMany", "BelongsToMany"}

\* static isMultiAssociation of each association class
isMultiAssociation(type) == type \in {"HasMany", "BelongsToMany"}

\* Model classes known to the model; "NotAModel" stands for a value that is
\* no subclass of Model, "Draft" for a model class that was never initialised
\* and "PostCopy" for a copy of Post (Post.withSchema(...)).
ModelClasses == {"User", "Post", "PostCopy", "Comment", "Draft"}
Values == ModelClasses \cup {"NotAModel"}

isModelStatic(v) == v \in ModelClasses

\* model.sequelize is set once the model went through Model.init
hasSequelize(m) == m \in {"User", "Post", "PostCopy", "Comment"}

\* the model a copy was made from
initialModel(m) == IF m = "PostCopy" THEN "Post" ELSE m

isSameInitialModel(a, b) == initialModel(a) = initialModel(b)

\* model.options.name
modelName(m) ==
  CASE initialModel(m) = "Post" -> [singular |-> "post", plural |-> "posts"]
    [] m = "Comment" -> [singular |-> "comment", plural |-> "comments"]
    [] m = "User" -> [singular |-> "user", plural |-> "users"]
    [] OTHER -> [singular |-> "draft", plural |-> "drafts"]

\* ------------------------------------------------------------ inflection
Words == {"post", "posts", "comment", "comments", "user", "users",
          "draft", "drafts", "owner", "owners"}

pluralize(w) ==
  CASE w = "post" -> "posts"
    [] w = "comment" -> "comments"
    [] w = "user" -> "users"
    [] w = "draft" -> "drafts"
    [] w = "owner" -> "owners"
    [] OTHER -> w

singularize(w) ==
  CASE w = "posts" -> "post"
    [] w = "comments" -> "comment"
    [] w = "users" -> "user"
    [] w = "drafts" -> "draft"
    [] w = "owners" -> "owner"
    [] OTHER -> w

\* --------------------------------------------------------------- errors
\* class: constructor of the thrown value; name: which failure it is;
\* cites: the incompatibility the message names; cause: options.cause;
\* parent: the parent association the message names
Err(class, name, cites, cause, parent) ==
  [class |-> class, name |-> name, cites |-> cites, cause |-> cause, parent |-> parent]
NoError == Err("none", "none", "none", "none", "none")

\* --------------------------------------------------------- normalization

\* normalizeForeignKeyOptions reading foreignKey?.name alone
normalizeForeignKeyOptions_NameOnly(foreignKey) ==
  IF foreignKey.t = "string"
  THEN Obj("name" :> foreignKey)
  ELSE LET fk == IF foreignKey.t = "object" THEN foreignKey.o ELSE EmptyObject
       IN Obj(removeUndefined(Spread(fk,
                "name" :> Get(fk, "name") @@ "fieldName" :> Undefined)))

\* normalizeForeignKeyOptions leaving fieldName where it is
normalizeForeignKeyOptions_KeepsFieldName(foreignKey) ==
  IF foreignKey.t = "string"
  THEN Obj("name" :> foreignKey)
  ELSE LET fk == IF foreignKey.t = "object" THEN foreignKey.o ELSE EmptyObject
       IN Obj(removeUndefined(Spread(fk,
                "name" :> Coalesce(Get(fk, "name"), Get(fk, "fieldName")))))

\* foreignKey?.name ?? foreignKey?.fieldName, then fieldName dropped
normalizeForeignKeyOptions(foreignKey) ==
  IF foreignKey.t = "string"
  THEN Obj("name" :> foreignKey)
  ELSE LET fk == IF foreignKey.t = "object" THEN foreignKey.o ELSE EmptyObject
       IN Obj(removeUndefined(Spread(fk,
                "name" :> Coalesce(Get(fk, "name"), Get(fk, "fieldName"))
                @@ "fieldName" :> Undefined)))

\* the three guards at the head of normalizeBaseAssociationOptions
RenamedOption(options) ==
  \/ "onDelete" \in DOMAIN options
  \/ "onUpdate" \in DOMAIN options
  \/ "constraints" \in DOMAIN options
  \/ "foreignKeyConstraint" \in DOMAIN options

\* NormalizedName deriving both forms of a string alias by inflection
NormalizedName_Inflects(associationType, options, target) ==
  LET as == Get(options, "as")
  IN IF Truthy(as)
     THEN IF as.t = "object"
          THEN as
          ELSE Obj("plural" :> Str(pluralize(as.s)) @@ "singular" :> Str(singularize(as.s)))
     ELSE Obj("singular" :> Str(modelName(target).singular)
              @@ "plural" :> Str(modelName(target).plural))

\* the { singular, plural } name chosen by normalizeBaseAssociationOptions
NormalizedName(associationType, options, target) ==
  LET as == Get(options, "as")
      multi == isMultiAssociation(associationType)
  IN IF Truthy(as)
     THEN IF as.t = "object"
          THEN as
          ELSE Obj("plural" :> (IF multi THEN as ELSE Str(pluralize(as.s)))
                   @@ "singular" :> (IF multi THEN Str(singularize(as.s)) ELSE as))
     ELSE Obj("singular" :> Str(modelName(target).singular)
              @@ "plural" :> Str(modelName(target).plural))

\* NormalizedAs taking the singular of an object alias for every type
NormalizedAs_SingularKey(associationType, options, target) ==
  LET as == Get(options, "as")
      multi == isMultiAssociation(associationType)
  IN IF Truthy(as)
     THEN IF as.t = "object"
          THEN Get(as.o, "singular")
          ELSE as
     ELSE Str(IF multi THEN modelName(target).plural ELSE modelName(target).singular)

\* the alias chosen by normalizeBaseAssociationOptions
NormalizedAs(associationType, options, target) ==
  LET as == Get(options, "as")
      multi == isMultiAssociation(associationType)
  IN IF Truthy(as)
     THEN IF as.t = "object"
          THEN (IF multi THEN Get(as.o, "plural") ELSE Get(as.o, "singular"))
          ELSE as
     ELSE Str(IF multi THEN modelName(target).plural ELSE modelName(target).singular)

\* normalizeBaseAssociationOptions once the renamed-option guards passed
normalizeBaseAssociationOptions(associationType, options, source, target) ==
  removeUndefined(Spread(options,
       "foreignKey" :> normalizeForeignKeyOptions(Get(options, "foreignKey"))
    @@ "hooks" :> Coalesce(Get(options, "hooks"), Bool(FALSE))
    @@ "as" :> NormalizedAs(associationType, options, target)
    @@ "name" :> NormalizedName(associationType, options, target)))

\* the normalizeOptions callback of defineAssociation: every association type
\* passes a normalizer built on normalizeBaseAssociationOptions
normalizeOptions(type, options, source, target) ==
  IF RenamedOption(options)
  THEN [err |-> Err("Error", "RenamedOptionError", "none", "none", "none"),
        options |-> EmptyObject]
  ELSE [err |-> NoError,
        options |-> normalizeBaseAssociationOptions(type, options, source, target)]

\* --------------------------------------------------------- associations
NoParent == "undefined"
ParentAssociations == {"tags"}

NoAssociation ==
  [id |-> 0, associationType |-> "none", source |-> "none", target |-> "none",
   as |-> "", options |-> EmptyObject, parentAssociation |-> NoParent]

\* association.rootAssociation === association
isRootAssociation(association) == association.parentAssociation = NoParent

\* source.associations[as]
Lookup(associations, source, as) ==
  IF as \in DOMAIN associations[source] THEN associations[source][as] ELSE NoAssociation

\* checkNamingCollision throws iff the name is an own key of source.getAttributes()
checkNamingCollision(attributes, source, associationName) ==
  IF associationName \in attributes[source]
  THEN Err("Error", "NamingCollisionError", "none", "none", "none")
  ELSE NoError

\* getAssociationsIncompatibilityStatus comparing the options as they are,
\* inverse included
getAssociationsIncompatibilityStatus_ComparesInverse(existingAssociation, newAssociationType, newTarget, newOptions) ==
  IF existingAssociation.associationType # newAssociationType
  THEN "DIFFERENT_TYPES"
  ELSE IF ~isSameInitialModel(existingAssociation.target, newTarget)
  THEN "DIFFERENT_TARGETS"
  ELSE IF ~isEqual(existingAssociation.options, newOptions)
  THEN "DIFFERENT_OPTIONS"
  ELSE "null"

\* IncompatibilityStatus; "null" is the compatible result
getAssociationsIncompatibilityStatus(existingAssociation, newAssociationType, newTarget, newOptions) ==
  IF existingAssociation.associationType # newAssociationType
  THEN "DIFFERENT_TYPES"
  ELSE IF ~isSameInitialModel(existingAssociation.target, newTarget)
  THEN "DIFFERENT_TARGETS"
  ELSE IF ~isEqual(omit(existingAssociation.options, "inverse"), omit(newOptions, "inverse"))
  THEN "DIFFERENT_OPTIONS"
  ELSE "null"

\* CitedIncompatibility with the first two branches of the message exchanged
CitedIncompatibility_Exchanged(incompatibilityStatus) ==
  IF incompatibilityStatus = "DIFFERENT_TYPES" THEN "DIFFERENT_TARGETS"
  ELSE IF incompatibilityStatus = "DIFFERENT_TARGETS" THEN "DIFFERENT_TYPES"
  ELSE "DIFFERENT_OPTIONS"

\* the category the second message of assertAssociationUnique names
CitedIncompatibility(incompatibilityStatus) ==
  IF incompatibilityStatus = "DIFFERENT_TYPES" THEN "DIFFERENT_TYPES"
  ELSE IF incompatibilityStatus = "DIFFERENT_TARGETS" THEN "DIFFERENT_TARGETS"
  ELSE "DIFFERENT_OPTIONS"

\* assertAssociationUnique without the early return for a compatible leg
assertAssociationUnique_NeverReuses(associations, type, source, target, options, parent) ==
  LET existingAssociation == Lookup(associations, source, options["as"].s)
      incompatibilityStatus ==
        getAssociationsIncompatibilityStatus(existingAssociation, type, target, options)
  IN IF existingAssociation = NoAssociation
     THEN NoError
     ELSE IF parent = NoParent /\ isRootAssociation(existingAssociation)
     THEN Err("AssociationError", "SameName", "none", "none", "none")
     ELSE Err("AssociationError", "Incompatible",
              CitedIncompatibility(incompatibilityStatus), "none", parent)

\* assertAssociationUnique returning for every leg of a composite, whatever
\* the incompatibility status
assertAssociationUnique_AnyLeg(associations, type, source, target, options, parent) ==
  LET existingAssociation == Lookup(associations, source, options["as"].s)
      incompatibilityStatus ==
        getAssociationsIncompatibilityStatus(existingAssociation, type, target, options)
  IN IF existingAssociation = NoAssociation
     THEN NoError
     ELSE IF parent # NoParent \/ existingAssociation.parentAssociation # NoParent
     THEN NoError
     ELSE IF parent = NoParent /\ isRootAssociation(existingAssociation)
     THEN Err("AssociationError", "SameName", "none", "none", "none")
     ELSE Err("AssociationError", "Incompatible",
              CitedIncompatibility(incompatibilityStatus), "none", parent)

\* assertAssociationUnique returning when both sides belong to a composite,
\* and otherwise only for a compatible request
assertAssociationUnique_BothInComposite(associations, type, source, target, options, parent) ==
  LET existingAssociation == Lookup(associations, source, options["as"].s)
      incompatibilityStatus ==
        getAssociationsIncompatibilityStatus(existingAssociation, type, target, options)
  IN IF existingAssociation = NoAssociation
     THEN NoError
     ELSE IF (parent # NoParent /\ existingAssociation.parentAssociation # NoParent)
             \/ ((parent # NoParent \/ existingAssociation.parentAssociation # NoParent)
                 /\ incompatibilityStatus = "null")
     THEN NoError
     ELSE IF parent = NoParent /\ isRootAssociation(existingAssociation)
     THEN Err("AssociationError", "SameName", "none", "none", "none")
     ELSE Err("AssociationError", "Incompatible",
              CitedIncompatibility(incompatibilityStatus), "none", parent)

\* assertAssociationUnique: NoError when it returns, the AssociationError otherwise
assertAssociationUnique(associations, type, source, target, options, parent) ==
  LET as == options["as"].s
      existingAssociation == Lookup(associations, source, as)
      incompatibilityStatus ==
        getAssociationsIncompatibilityStatus(existingAssociation, type, target, options)
  IN IF existingAssociation = NoAssociation
     THEN NoError
     ELSE IF (parent # NoParent \/ existingAssociation.parentAssociation # NoParent)
             /\ incompatibilityStatus = "null"
     THEN NoError
     ELSE IF parent = NoParent /\ isRootAssociation(existingAssociation)
     THEN Err("AssociationError", "SameName", "none", "none", "none")
     ELSE Err("AssociationError", "Incompatible",
              CitedIncompatibility(incompatibilityStatus), "none", parent)

\* ------------------------------------------------------------ callbacks
\* What a hook listener passed to source.hooks may do while it runs: nothing,
\* throw, add an attribute to the source, assign normalizedOptions.as,
\* assign normalizedOptions.hooks = false, or declare another association
\* under the alias it is given.
HookAttributes == {"posts"}
HookAliases == {"post"}
NoBehaviour == [kind |-> "none", name |-> ""]
BeforeAssociateBehaviours ==
  {NoBehaviour, [kind |-> "throw", name |-> ""], [kind |-> "setHooks", name |-> ""],
   [kind |-> "associate", name |-> ""]}
  \cup {[kind |-> "addAttribute", name |-> a] : a \in HookAttributes}
  \cup {[kind |-> "setAs", name |-> a] : a \in HookAliases}
AfterAssociateBehaviours ==
  {NoBehaviour, [kind |-> "throw", name |-> ""]}
  \cup {[kind |-> "addAttribute", name |-> a] : a \in HookAttributes}
ConstructBehaviours == {"return", "throw"}

\* new Association(secret, source, target, options, parent): the instance the
\* construct callback builds
NewAssociation(id, type, source, target, options, parent) ==
  [id |-> id, associationType |-> type, source |-> source, target |-> target,
   as |-> options["as"].s, options |-> options, parentAssociation |-> parent]

\* the Association constructor stores the instance in source.associations[as]
Register(associations, association) ==
  [associations EXCEPT ![association.source] =
     (association.as :> association) @@ associations[association.source]]

\* ------------------------------------------------------ defineAssociation
\* The progress of one defineAssociation call: the model state it works on,
\* normalizedOptions (options), the steps taken so far, the error thrown (if
\* any) and the association it is about to return.
StepNames ==
  <<"isModelStatic", "assertAssociationModelIsDefined(source)",
    "assertAssociationModelIsDefined(target)", "normalizeOptions",
    "checkNamingCollision", "assertAssociationUnique", "beforeAssociate",
    "construct", "afterAssociate", "checkNamingCollision(2)">>

Frame(associations, attributes, nextId, options, trace, err) ==
  [associations |-> associations, attributes |-> attributes, nextId |-> nextId,
   options |-> options, normalized |-> options, trace |-> trace, err |-> err,
   association |-> NoAssociation, constructed |-> FALSE,
   hooksRun |-> {}, hookWrites |-> FALSE]

\* Validate with assertAssociationUnique called before checkNamingCollision
Validate_UniqueFirst(associations, attributes, nextId, type, source, target, options, parent) ==
  LET failed(n, name) ==
        Frame(associations, attributes, nextId, EmptyObject, SubSeq(StepNames, 1, n),
              Err("Error", name, "none", "none", "none"))
      normalized == normalizeOptions(type, options, source, target)
      normalizedOptions == normalized.options
      collision == checkNamingCollision(attributes, source, normalizedOptions["as"].s)
      unique == assertAssociationUnique(associations, type, source, target,
                                        normalizedOptions, parent)
  IN IF ~isModelStatic(target) THEN failed(1, "NotAModelError")
     ELSE IF ~hasSequelize(source) THEN failed(2, "ModelNotInitializedError")
     ELSE IF ~hasSequelize(target) THEN failed(3, "ModelNotInitializedError")
     ELSE IF normalized.err # NoError THEN failed(4, "RenamedOptionError")
     ELSE IF unique # NoError
     THEN Frame(associations, attributes, nextId, normalizedOptions,
                SubSeq(StepNames, 1, 4) \o <<"assertAssociationUnique">>, unique)
     ELSE Frame(associations, attributes, nextId, normalizedOptions,
                SubSeq(StepNames, 1, 4)
                  \o <<"assertAssociationUnique", "checkNamingCollision">>, collision)

\* lines 219-229: the checks before the hooks
Validate(associations, attributes, nextId, type, source, target, options, parent) ==
  LET failed(n, name) ==
        Frame(associations, attributes, nextId, EmptyObject, SubSeq(StepNames, 1, n),
              Err("Error", name, "none", "none", "none"))
      normalized == normalizeOptions(type, options, source, target)
      normalizedOptions == normalized.options
      collision == checkNamingCollision(attributes, source, normalizedOptions["as"].s)
      unique == assertAssociationUnique(associations, type, source, target,
                                        normalizedOptions, parent)
  IN IF ~isModelStatic(target) THEN failed(1, "NotAModelError")
     ELSE IF ~hasSequelize(source) THEN failed(2, "ModelNotInitializedError")
     ELSE IF ~hasSequelize(target) THEN failed(3, "ModelNotInitializedError")
     ELSE IF normalized.err # NoError THEN failed(4, "RenamedOptionError")
     ELSE IF collision # NoError
     THEN Frame(associations, attributes, nextId, normalizedOptions,
                SubSeq(StepNames, 1, 5), collision)
     ELSE Frame(associations, attributes, nextId, normalizedOptions,
                SubSeq(StepNames, 1, 6), unique)

\* if (normalizedOptions.hooks)
HooksEnabled(options) == Truthy(Get(options, "hooks"))

\* the effect of one hook listener on the call
RunHook(c, source, hook, behaviour) ==
  LET ran == [c EXCEPT !.trace = Append(@, hook), !.hooksRun = @ \cup {hook}]
      as == c.options["as"].s
  IN CASE behaviour.kind = "throw" ->
            [ran EXCEPT !.err = Err("HookError", hook, "none", "none", "none")]
       [] behaviour.kind = "addAttribute" ->
            [ran EXCEPT !.attributes[source] = @ \cup {behaviour.name}]
       [] behaviour.kind = "setAs" ->
            [ran EXCEPT !.options = ("as" :> Str(behaviour.name)) @@ @]
       [] behaviour.kind = "setHooks" ->
            [ran EXCEPT !.options = ("hooks" :> Bool(FALSE)) @@ @]
       [] behaviour.kind = "associate" ->
            \* source.hasOne(Comment, { as }) from inside the listener
            IF Lookup(c.associations, source, as) # NoAssociation \/ as \in c.attributes[source]
            THEN [ran EXCEPT !.err = Err("HookError", hook, "none", "none", "none")]
            ELSE [ran EXCEPT
                    !.associations = Register(@,
                       NewAssociation(c.nextId, "HasOne", source, "Comment",
                          normalizeBaseAssociationOptions("HasOne", "as" :> Str(as),
                                                          source, "Comment"),
                          NoParent)),
                    !.nextId = @ + 1,
                    !.hookWrites = TRUE]
       [] OTHER -> ran

\* RunBeforeAssociate returning early when the alias is occupied
RunBeforeAssociate_SkipsOnReuse(c, source, behaviour) ==
  IF c.err # NoError \/ ~HooksEnabled(c.options) THEN c
  ELSE IF Lookup(c.associations, source, c.options["as"].s) # NoAssociation THEN c
  ELSE RunHook(c, source, "beforeAssociate", behaviour)

\* lines 241-243
RunBeforeAssociate(c, source, behaviour) ==
  IF c.err # NoError \/ ~HooksEnabled(c.options) THEN c
  ELSE RunHook(c, source, "beforeAssociate", behaviour)

\* ConstructOrReuse without the lookup: construct(normalizedOptions) always
ConstructOrReuse_AlwaysConstructs(c, type, source, target, parent, behaviour) ==
  LET association == NewAssociation(c.nextId, type, source, target, c.options, parent)
  IN IF c.err # NoError THEN c
     ELSE IF behaviour = "throw"
     THEN [c EXCEPT !.trace = Append(@, "construct"),
                    !.err = Err("AssociationError", "ConstructionFailed", "none",
                                "ConstructError", parent)]
     ELSE [c EXCEPT !.trace = Append(@, "construct"),
                    !.associations = Register(@, association),
                    !.nextId = @ + 1,
                    !.association = association,
                    !.constructed = TRUE]

\* ConstructOrReuse handing construct the options as they were before the
\* beforeAssociate hook ran
ConstructOrReuse_StaleOptions(c, type, source, target, parent, behaviour) ==
  LET existing == Lookup(c.associations, source, c.options["as"].s)
      association == NewAssociation(c.nextId, type, source, target, c.normalized, parent)
  IN IF c.err # NoError THEN c
     ELSE IF existing # NoAssociation THEN [c EXCEPT !.association = existing]
     ELSE IF behaviour = "throw"
     THEN [c EXCEPT !.trace = Append(@, "construct"),
                    !.err = Err("AssociationError", "ConstructionFailed", "none",
                                "ConstructError", parent)]
     ELSE [c EXCEPT !.trace = Append(@, "construct"),
                    !.associations = Register(@, association),
                    !.nextId = @ + 1,
                    !.association = association,
                    !.constructed = TRUE]

\* ConstructOrReuse without the catch: the error of construct leaves the
\* call as it was thrown
ConstructOrReuse_Rethrows(c, type, source, target, parent, behaviour) ==
  LET existing == Lookup(c.associations, source, c.options["as"].s)
      association == NewAssociation(c.nextId, type, source, target, c.options, parent)
  IN IF c.err # NoError THEN c
     ELSE IF existing # NoAssociation THEN [c EXCEPT !.association = existing]
     ELSE IF behaviour = "throw"
     THEN [c EXCEPT !.trace = Append(@, "construct"),
                    !.err = Err("ConstructError", "construct", "none", "none", "none")]
     ELSE [c EXCEPT !.trace = Append(@, "construct"),
                    !.associations = Register(@, association),
                    !.nextId = @ + 1,
                    !.association = association,
                    !.constructed = TRUE]

\* lines 245-255: source.associations[normalizedOptions.as] ?? construct(normalizedOptions)
ConstructOrReuse(c, type, source, target, parent, behaviour) ==
  LET existing == Lookup(c.associations, source, c.options["as"].s)
      association == NewAssociation(c.nextId, type, source, target, c.options, parent)
  IN IF c.err # NoError THEN c
     ELSE IF existing # NoAssociation THEN [c EXCEPT !.association = existing]
     ELSE IF behaviour = "throw"
     THEN [c EXCEPT !.trace = Append(@, "construct"),
                    !.err = Err("AssociationError", "ConstructionFailed", "none",
                                "ConstructError", parent)]
     ELSE [c EXCEPT !.trace = Append(@, "construct"),
                    !.associations = Register(@, association),
                    !.nextId = @ + 1,
                    !.association = association,
                    !.constructed = TRUE]

\* RunAfterAssociate without the test of normalizedOptions.hooks
RunAfterAssociate_Ungated(c, source, behaviour) ==
  IF c.err # NoError THEN c
  ELSE RunHook(c, source, "afterAssociate", behaviour)

\* lines 257-259
RunAfterAssociate(c, source, behaviour) ==
  IF c.err # NoError \/ ~HooksEnabled(c.options) THEN c
  ELSE RunHook(c, source, "afterAssociate", behaviour)

\* lines 261-263
Return(c, source) ==
  IF c.err # NoError THEN c
  ELSE [c EXCEPT !.trace = Append(@, "checkNamingCollision(2)"),
                 !.err = checkNamingCollision(c.attributes, source, c.options["as"].s)]

\* ------------------------------------------------------------- the state
VARIABLES
  associations,   \* model -> (alias -> Association): Model.associations
  attributes,     \* model -> attribute names: keys of Model.getAttributes()
  nextId,         \* identity of the next Association instance
  calls,          \* defineAssociation calls made so far
  last,           \* the most recent defineAssociation call and its outcome
  helper,         \* a call of one of the other exported helpers: arguments and outcome
  prototype       \* own properties of the prototype handed to mixinMethods

vars == <<associations, attributes, nextId, calls, last, helper, prototype>>

Parents == {NoParent} \cup ParentAssociations

\* raw options the callers pass
OptPosts == "as" :> Str("posts")
OptPostsHooks == "as" :> Str("posts") @@ "hooks" :> Bool(TRUE)
OptPostsForeignKey == "as" :> Str("posts") @@ "foreignKey" :> Str("authorId")
OptPostsInverse == "as" :> Str("posts") @@ "inverse" :> Obj("as" :> Str("author"))
OptOwner == "as" :> Str("owner")
OptConstraints == "as" :> Str("posts") @@ "constraints" :> Bool(TRUE)

\* The calls explored, as <<type, source, target, options, parent>>: the
\* declarations of User towards Post and Comment with and without a parent,
\* every association type, a copy of Post as target, options that differ in
\* inverse only, options that enable the hooks, and the calls that fail
\* before the uniqueness check.
Requests ==
  ({"HasMany", "BelongsTo"} \X {"User"} \X {"Post", "Comment"}
      \X {OptPosts, OptPostsForeignKey} \X Parents)
  \cup (AssociationTypes \X {"User"} \X {"Post"} \X {OptPosts} \X {NoParent})
  \cup ({"HasMany"} \X {"User"} \X {"PostCopy"} \X {OptPosts} \X Parents)
  \cup ({"HasMany"} \X {"User"} \X {"Post"} \X {OptPostsInverse, OptPostsHooks} \X Parents)
  \cup ({"HasMany"} \X {"User"} \X {"NotAModel", "Draft"} \X {OptPosts} \X {NoParent})
  \cup ({"HasMany"} \X {"Draft"} \X {"Post", "NotAModel"} \X {OptPosts} \X {NoParent})
  \cup ({"HasMany"} \X {"User"} \X {"Post"} \X {OptOwner, OptConstraints} \X {NoParent})

NoCall ==
  [type |-> "none", source |-> "none", target |-> "none", options |-> EmptyObject,
   parent |-> NoParent, associationsBefore |-> << >>, attributesBefore |-> << >>,
   normalized |-> EmptyObject, validated |-> FALSE,
   optionsAtReturn |-> EmptyObject, trace |-> << >>,
   err |-> NoError, association |-> NoAssociation, constructed |-> FALSE,
   hooksRun |-> {}, hookWrites |-> FALSE,
   before |-> NoBehaviour, construct |-> "return", after |-> NoBehaviour]

\* no helper was called
NoEvaluation ==
  [fn |-> "none", args |-> << >>, returned |-> FALSE, result |-> Undefined,
   after |-> << >>]

\* the models before any declaration
NothingDeclared ==
  /\ associations = [m \in ModelClasses |-> << >>]
  /\ attributes = [m \in ModelClasses |-> IF m = "User" THEN {"id", "owner"} ELSE {"id"}]
  /\ nextId = 1
  /\ calls = 0
  /\ last = NoCall

Init ==
  /\ NothingDeclared
  /\ helper = NoEvaluation
  /\ prototype = EmptyObject

\* the behaviours a callback can show, when the call reaches it at all
BeforeChoices(c) ==
  IF c.err = NoError /\ HooksEnabled(c.options) THEN BeforeAssociateBehaviours ELSE {NoBehaviour}
ConstructChoices(c, source) ==
  IF c.err = NoError /\ Lookup(c.associations, source, c.options["as"].s) = NoAssociation
  THEN ConstructBehaviours ELSE {"return"}
AfterChoices(c) ==
  IF c.err = NoError /\ HooksEnabled(c.options) THEN AfterAssociateBehaviours ELSE {NoBehaviour}

\* one call defineAssociation(type, source, target, options, parent, ...), from
\* entry to return or throw
defineAssociation(type, source, target, options, parent) ==
  /\ calls < MaxCalls
  /\ LET c1 == Validate(associations, attributes, nextId, type, source, target, options, parent)
     IN \E before \in BeforeChoices(c1) :
          LET c2 == RunBeforeAssociate(c1, source, before)
          IN \E construct \in ConstructChoices(c2, source) :
               LET c3 == ConstructOrReuse(c2, type, source, target, parent, construct)
               IN \E after \in AfterChoices(c3) :
                    LET c4 == Return(RunAfterAssociate(c3, source, after), source)
                    IN /\ associations' = c4.associations
                       /\ attributes' = c4.attributes
                       /\ nextId' = c4.nextId
                       /\ calls' = calls + 1
                       /\ last' =
                            [type |-> type, source |-> source, target |-> target,
                             options |-> options, parent |-> parent,
                             associationsBefore |-> associations,
                             attributesBefore |-> attributes,
                             normalized |-> c1.normalized,
                             validated |-> c1.err = NoError,
                             optionsAtReturn |-> c4.options,
                             trace |-> c4.trace, err |-> c4.err,
                             association |-> IF c4.err = NoError THEN c4.association
                                             ELSE NoAssociation,
                             constructed |-> c4.constructed,
                             hooksRun |-> c4.hooksRun, hookWrites |-> c4.hookWrites,
                             before |-> before, construct |-> construct, after |-> after]
                       /\ UNCHANGED <<helper, prototype>>

Next ==
  \E r \in Requests : defineAssociation(r[1], r[2], r[3], r[4], r[5])

Spec == Init /\ [][Next]_vars

\* ------------------------------------------------------------------------
\* The other exported helpers, each called on its own.

\* ------------------------------------------------ addForeignKeyConstraints
\* A source model as addForeignKeyConstraints reads it: getTableName(), the
\* keys of primaryKeys in their order, and getAttributes()[name].field
SourceModels ==
  {[tableName |-> "users", primaryKeys |-> <<"id">>,
    field |-> ("id" :> Undefined)],
   [tableName |-> "accounts", primaryKeys |-> <<"id">>,
    field |-> ("id" :> Str("account_id"))],
   [tableName |-> "memberships", primaryKeys |-> <<"userId", "groupId">>,
    field |-> ("userId" :> Str("user_id") @@ "groupId" :> Undefined)],
   [tableName |-> "logs", primaryKeys |-> << >>, field |-> << >>]}

\* Object.keys(source.primaryKeys).map(a => source.getAttributes()[a].field || a)
primaryKeys(source) ==
  [i \in 1..Len(source.primaryKeys) |->
     LET primaryKeyAttribute == source.primaryKeys[i]
     IN IF Truthy(source.field[primaryKeyAttribute])
        THEN source.field[primaryKeyAttribute].s
        ELSE primaryKeyAttribute]

\* primaryKeys.includes(key)
includes(seq, e) == \E i \in 1..Len(seq) : seq[i] = e

\* key || primaryKeys[0]
KeyOrFirstPrimaryKey(source, key) ==
  IF key # "" THEN Str(key)
  ELSE IF Len(primaryKeys(source)) > 0 THEN Str(primaryKeys(source)[1])
  ELSE Undefined

\* addForeignKeyConstraints with the two defaults of onDelete exchanged
addForeignKeyConstraints_CascadeWhenNullable(newAttribute, source, options, key) ==
  IF Get(options, "foreignKeyConstraints") # Bool(FALSE)
     /\ (Len(primaryKeys(source)) = 1 \/ ~includes(primaryKeys(source), key))
  THEN Spread(newAttribute,
            "references" :> Obj("model" :> Str(source.tableName)
                                @@ "key" :> KeyOrFirstPrimaryKey(source, key))
         @@ "onDelete" :> Coalesce(Get(newAttribute, "onDelete"),
                                   IF Get(newAttribute, "allowNull") # Bool(FALSE)
                                   THEN Str("CASCADE") ELSE Str("SET NULL"))
         @@ "onUpdate" :> Coalesce(Get(newAttribute, "onUpdate"), Str("CASCADE")))
  ELSE newAttribute

\* addForeignKeyConstraints without the test of the primary keys
addForeignKeyConstraints_AnyPrimaryKeys(newAttribute, source, options, key) ==
  IF Get(options, "foreignKeyConstraints") # Bool(FALSE)
  THEN Spread(newAttribute,
            "references" :> Obj("model" :> Str(source.tableName)
                                @@ "key" :> KeyOrFirstPrimaryKey(source, key))
         @@ "onDelete" :> Coalesce(Get(newAttribute, "onDelete"),
                                   IF Get(newAttribute, "allowNull") # Bool(FALSE)
                                   THEN Str("SET NULL") ELSE Str("CASCADE"))
         @@ "onUpdate" :> Coalesce(Get(newAttribute, "onUpdate"), Str("CASCADE")))
  ELSE newAttribute

\* lines 28-52: newAttribute as the call leaves it (the source is only read)
addForeignKeyConstraints(newAttribute, source, options, key) ==
  IF Get(options, "foreignKeyConstraints") # Bool(FALSE)
     /\ (Len(primaryKeys(source)) = 1 \/ ~includes(primaryKeys(source), key))
  THEN Spread(newAttribute,
            "references" :> Obj("model" :> Str(source.tableName)
                                @@ "key" :> KeyOrFirstPrimaryKey(source, key))
         @@ "onDelete" :> Coalesce(Get(newAttribute, "onDelete"),
                                   IF Get(newAttribute, "allowNull") # Bool(FALSE)
                                   THEN Str("SET NULL") ELSE Str("CASCADE"))
         @@ "onUpdate" :> Coalesce(Get(newAttribute, "onUpdate"), Str("CASCADE")))
  ELSE newAttribute

\* ------------------------------------------------------------ mixinMethods
\* a method a class body declares on the prototype
UserMethod ==
  [enumerable |-> FALSE,
   value |-> [association |-> 0, method |-> "user", arguments |-> <<"params">>]]

\* the property descriptor of lines 78-89: value(...params) returns
\* association[realMethod](this, ...params)
Accessor(association, realMethod) ==
  [enumerable |-> FALSE,
   value |-> [association |-> association.id, method |-> realMethod,
              arguments |-> <<"this", "params">>]]

\* aliases?.[method] || method
RealMethod(aliases, method) ==
  IF aliases.t = "object" /\ method \in DOMAIN aliases.o THEN aliases.o[method] ELSE method

\* mixinMethods without the hasOwnProperty test
mixinMethods_Redefines(association, mixinTargetPrototype, methods, aliases) ==
  LET done[i \in 0..Len(methods)] ==
        IF i = 0 THEN mixinTargetPrototype
        ELSE (association.accessors[methods[i]]
                :> Accessor(association, RealMethod(aliases, methods[i])))
             @@ done[i - 1]
  IN done[Len(methods)]

\* lines 65-91: the own properties of mixinTargetPrototype after the loop
mixinMethods(association, mixinTargetPrototype, methods, aliases) ==
  LET done[i \in 0..Len(methods)] ==
        IF i = 0 THEN mixinTargetPrototype
        ELSE LET method == methods[i]
                 targetMethodName == association.accessors[method]
             IN IF targetMethodName \in DOMAIN done[i - 1]
                THEN done[i - 1]
                ELSE (targetMethodName :> Accessor(association, RealMethod(aliases, method)))
                     @@ done[i - 1]
  IN done[Len(methods)]

\* ------------------------------------------------------ arguments explored
OptPostsInverseOther == "as" :> Str("posts") @@ "inverse" :> Obj("as" :> Str("writer"))

\* getAssociationsIncompatibilityStatus: an association declared on User and
\* a new request, over every type, Post, its copy and Comment, and options
\* that differ in inverse only or in foreignKey
ComparedOptions == {OptPosts, OptPostsInverse, OptPostsInverseOther, OptPostsForeignKey}
ComparedTargets == {"Post", "PostCopy", "Comment"}
StatusArguments ==
  {[existing |-> NewAssociation(1, t1, "User", g1,
                   normalizeBaseAssociationOptions(t1, o1, "User", g1), NoParent),
    type |-> t2, target |-> g2,
    options |-> normalizeBaseAssociationOptions(t2, o2, "User", g2)] :
     t1 \in AssociationTypes, g1 \in ComparedTargets, o1 \in ComparedOptions,
     t2 \in AssociationTypes, g2 \in ComparedTargets, o2 \in ComparedOptions}

\* normalizeForeignKeyOptions: absent, a string, or an object with any subset
\* of name, fieldName and onDelete, each defined or undefined
ForeignKeyNames == {"authorId", "userId"}
ForeignKeyValues(k) ==
  IF k = "onDelete" THEN {Undefined, Str("CASCADE")}
  ELSE {Undefined} \cup {Str(s) : s \in ForeignKeyNames}
ForeignKeyObjects ==
  UNION {{f \in [D -> {Undefined, Str("CASCADE")} \cup {Str(s) : s \in ForeignKeyNames}] :
            \A k \in D : f[k] \in ForeignKeyValues(k)} :
         D \in SUBSET {"name", "fieldName", "onDelete"}}
ForeignKeys ==
  {Undefined} \cup {Str(s) : s \in ForeignKeyNames \cup {""}}
  \cup {Obj(f) : f \in ForeignKeyObjects}

\* normalizeBaseAssociationOptions: the alias absent, a string (singular,
\* plural, empty) or an object; the foreign key absent, a string or an object;
\* hooks absent or true; and one set of options with a renamed option
Aliases ==
  {Str(w) : w \in {"post", "posts", "owner", "comments", ""}}
  \cup {Obj("singular" :> Str("child") @@ "plural" :> Str("children"))}
RawOptions ==
  {as @@ foreignKey @@ hooks :
     as \in {EmptyObject} \cup {"as" :> a : a \in Aliases},
     foreignKey \in {EmptyObject, "foreignKey" :> Str("authorId"),
                     "foreignKey" :> Obj("fieldName" :> Str("authorId"))},
     hooks \in {EmptyObject, "hooks" :> Bool(TRUE)}}
  \cup {OptConstraints}
NormalizeArguments ==
  {[type |-> t, source |-> "User", target |-> g, options |-> o] :
     t \in AssociationTypes, g \in {"Post", "Comment"}, o \in RawOptions}

\* addForeignKeyConstraints: attributes with and without allowNull, onDelete
\* and onUpdate, every source model, foreignKeyConstraints absent, true and
\* false, and keys that are attribute names, column names or empty
NewAttributes ==
  {("type" :> Str("INTEGER")) @@ allowNull @@ onDelete @@ onUpdate :
     allowNull \in {EmptyObject, "allowNull" :> Bool(TRUE), "allowNull" :> Bool(FALSE)},
     onDelete \in {EmptyObject, "onDelete" :> Str("RESTRICT")},
     onUpdate \in {EmptyObject, "onUpdate" :> Str("RESTRICT")}}
ConstraintOptions ==
  {EmptyObject, "foreignKeyConstraints" :> Bool(TRUE), "foreignKeyConstraints" :> Bool(FALSE)}
Keys == {"id", "userId", "user_id", "groupId", "account_id", ""}
ConstraintArguments ==
  {[newAttribute |-> a, source |-> s, options |-> o, key |-> k] :
     a \in NewAttributes, s \in SourceModels, o \in ConstraintOptions, k \in Keys}

\* a helper is about to be called with arguments from the sets above
Pending(fn, args) ==
  [fn |-> fn, args |-> args, returned |-> FALSE, result |-> Undefined, after |-> << >>]

InitHelpers ==
  /\ NothingDeclared
  /\ prototype = EmptyObject
  /\ helper \in
       {Pending("getAssociationsIncompatibilityStatus", a) : a \in StatusArguments}
       \cup {Pending("normalizeForeignKeyOptions", [foreignKey |-> a]) : a \in ForeignKeys}
       \cup {Pending("normalizeBaseAssociationOptions", a) : a \in NormalizeArguments}
       \cup {Pending("addForeignKeyConstraints", a) : a \in ConstraintArguments}

\* the call returns (result) or throws (result.err); after is what the
\* arguments hold once the call is over
Call_getAssociationsIncompatibilityStatus ==
  /\ helper.fn = "getAssociationsIncompatibilityStatus" /\ ~helper.returned
  /\ helper' = [helper EXCEPT
       !.returned = TRUE,
       !.result = getAssociationsIncompatibilityStatus(
                    helper.args.existing, helper.args.type, helper.args.target,
                    helper.args.options),
       \* omit(...) builds new objects: neither argument is written
       !.after = helper.args]
  /\ UNCHANGED <<associations, attributes, nextId, calls, last, prototype>>

Call_normalizeForeignKeyOptions ==
  /\ helper.fn = "normalizeForeignKeyOptions" /\ ~helper.returned
  /\ helper' = [helper EXCEPT
       !.returned = TRUE,
       !.result = normalizeForeignKeyOptions(helper.args.foreignKey),
       !.after = helper.args]
  /\ UNCHANGED <<associations, attributes, nextId, calls, last, prototype>>

Call_normalizeBaseAssociationOptions ==
  /\ helper.fn = "normalizeBaseAssociationOptions" /\ ~helper.returned
  /\ helper' = [helper EXCEPT
       !.returned = TRUE,
       !.result = normalizeOptions(helper.args.type, helper.args.options,
                                   helper.args.source, helper.args.target),
       !.after = helper.args]
  /\ UNCHANGED <<associations, attributes, nextId, calls, last, prototype>>

Call_addForeignKeyConstraints ==
  /\ helper.fn = "addForeignKeyConstraints" /\ ~helper.returned
  /\ helper' = [helper EXCEPT
       !.returned = TRUE,
       !.after = [helper.args EXCEPT
          !.newAttribute = addForeignKeyConstraints(
                             helper.args.newAttribute, helper.args.source,
                             helper.args.options, helper.args.key)]]
  /\ UNCHANGED <<associations, attributes, nextId, calls, last, prototype>>

NextHelpers ==
  \/ Call_getAssociationsIncompatibilityStatus
  \/ Call_normalizeForeignKeyOptions
  \/ Call_normalizeBaseAssociationOptions
  \/ Call_addForeignKeyConstraints

SpecHelpers == InitHelpers /\ [][NextHelpers]_vars

\* mixinMethods: two associations whose "get" accessor has the same name,
\* on a prototype that starts empty or with a method of that name
MixinAssociations ==
  {[id |-> 1, accessors |-> [get |-> "getPosts", set |-> "setPosts", add |-> "addPost"]],
   [id |-> 2, accessors |-> [get |-> "getPosts", set |-> "setDrafts", add |-> "addDraft"]]}
MethodLists == {<<"get">>, <<"set", "add">>, <<"get", "set", "add">>}
AliasMaps == {Undefined, Obj("add" :> "addMultiple"), Obj("get" :> "getOne" @@ "set" :> "setOne")}

InitMixin ==
  /\ NothingDeclared
  /\ helper = NoEvaluation
  /\ prototype \in {EmptyObject, "getPosts" :> UserMethod}

Call_mixinMethods(association, methods, aliases) ==
  /\ prototype' = mixinMethods(association, prototype, methods, aliases)
  /\ helper' = [fn |-> "mixinMethods",
                args |-> [association |-> association, methods |-> methods,
                          aliases |-> aliases],
                returned |-> TRUE, result |-> Undefined, after |-> << >>]
  /\ UNCHANGED <<associations, attributes, nextId, calls, last>>

NextMixin ==
  \E association \in MixinAssociations, methods \in MethodLists, aliases \in AliasMaps :
    Call_mixinMethods(association, methods, aliases)

SpecMixin == InitMixin /\ [][NextMixin]_vars

\* ------------------------------------------------------------------------
\* Vocabulary of the properties: it reads the record of the most recent
\* call.
\* a call of the helper fn has returned or thrown
Returned(fn) == helper.fn = fn /\ helper.returned
Called == last.type # "none"
Succeeded == Called /\ last.err = NoError
Failed == Called /\ last.err # NoError
\* normalizeOptions returned, so the alias is resolved
Normalized == Called /\ last.normalized # EmptyObject
Alias == last.normalized["as"].s
RegistryBefore == last.associationsBefore[last.source]
RegistryAfter == associations[last.source]
\* the association that occupied the alias when the call was made
ExistingBefore == Lookup(last.associationsBefore, last.source, Alias)
Occupied == Normalized /\ ExistingBefore # NoAssociation
\* the classifier's rating of the request against the occupant
Status ==
  getAssociationsIncompatibilityStatus(ExistingBefore, last.type, last.target, last.normalized)
AliasIsAttribute == Alias \in last.attributesBefore[last.source]
Steps == {last.trace[i] : i \in 1..Len(last.trace)}
HookInvoked == last.hooksRun # {}
ConstructInvoked == "construct" \in Steps
NoListenerInterferes == last.before = NoBehaviour /\ last.after = NoBehaviour
SameRequest(a, b) ==
  /\ a.type = b.type /\ a.source = b.source /\ a.target = b.target
  /\ a.options = b.options /\ a.parent = b.parent
Size(registry) == Cardinality(DOMAIN registry)

\* ------------------------------------------------------------------------
\* C1 (as stated): a successful declaration without a parent that is
\* repeated at once with the identical type, source, target and options
\* succeeds again, returns the same instance, and leaves the size of the
\* source's registry as it was.
C1_IdempotentReuse ==
  [][(/\ Succeeded /\ last.parent = NoParent
      /\ calls' = calls + 1 /\ SameRequest(last, last'))
     => (/\ last'.err = NoError
         /\ last'.association.id = last.association.id
         /\ Size(associations'[last.source]) = Size(associations[last.source]))]_vars

\* C1 (amended): repeating a successful declaration at once with the
\* identical type, source, target, options and parent, no hook listener
\* interfering in either call: with a parent the repeat succeeds, returns
\* the same instance and the registry keeps its size; when the first call
\* constructed the association without a parent the repeat fails with an
\* AssociationError and the registry is unchanged.
C1_ReuseOnlyWithParent ==
  [][(/\ Succeeded /\ NoListenerInterferes
      /\ calls' = calls + 1 /\ SameRequest(last, last')
      /\ last'.before = NoBehaviour /\ last'.after = NoBehaviour)
     => (/\ last.parent # NoParent
            => (/\ last'.err = NoError
                /\ last'.association.id = last.association.id
                /\ ~last'.constructed
                /\ Size(associations'[last.source]) = Size(associations[last.source]))
         /\ (last.parent = NoParent /\ last.constructed)
            => (/\ last'.err.class = "AssociationError"
                /\ associations' = associations))]_vars

\* a declaration with a parent was answered with the association an earlier
\* identical declaration had constructed
C1_Witness ==
  /\ Succeeded /\ last.parent # NoParent /\ ~last.constructed /\ Occupied
  /\ last.association = ExistingBefore
  /\ ExistingBefore.parentAssociation = last.parent
  /\ ExistingBefore.associationType = last.type
  /\ ExistingBefore.target = last.target
  /\ ExistingBefore.options = last.normalized

\* ------------------------------------------------------------------------
\* C2 (as stated): a call for an alias occupied by an association the
\* classifier rates incompatible fails with an AssociationError, invokes no
\* hook and no construct, and leaves the source's registry as it was.
C2_AliasExclusivity ==
  (Occupied /\ Status # "null")
    => (/\ last.err.class = "AssociationError"
        /\ ~HookInvoked /\ ~ConstructInvoked
        /\ RegistryAfter = RegistryBefore)

\* C2 (amended): the same, for an alias that is not also the name of an
\* attribute of the source (for such an alias the call fails earlier, with
\* the naming-collision Error).
C2_AliasExclusivityUnlessAttribute ==
  (Occupied /\ Status # "null" /\ ~AliasIsAttribute)
    => (/\ last.err.class = "AssociationError"
        /\ last.err.name \in {"SameName", "Incompatible"}
        /\ ~HookInvoked /\ ~ConstructInvoked
        /\ RegistryAfter = RegistryBefore
        /\ Lookup(associations, last.source, Alias) = ExistingBefore)

\* an incompatible declaration was rejected and the occupant kept the alias
C2_Witness ==
  /\ Occupied /\ Status = "DIFFERENT_TARGETS" /\ ~AliasIsAttribute
  /\ last.err.class = "AssociationError"
  /\ Lookup(associations, last.source, Alias) = ExistingBefore

\* ------------------------------------------------------------------------
\* C3 (as stated): every AssociationError raised for an occupied alias names
\* the category that differs, and that category is the classifier's result.
C3_ConflictDiagnostic ==
  (Called /\ last.err.name \in {"SameName", "Incompatible"})
    => (/\ last.err.cites \in {"DIFFERENT_TYPES", "DIFFERENT_TARGETS", "DIFFERENT_OPTIONS"}
        /\ last.err.cites = Status)

\* C3 (amended): the AssociationError names the category, equal to the
\* classifier's result, when a parent is supplied or the occupant has a
\* parentAssociation; when neither has a parent the error is the "two
\* associations with the same name" message, which names no category - so
\* hasMany(Post, as posts) followed by belongsTo(Post, as posts), both
\* without a parent, fails without naming DifferentTypes.
C3_DiagnosticOnlyInComposite ==
  (Called /\ last.err.name \in {"SameName", "Incompatible"})
    => /\ last.err.class = "AssociationError"
       /\ Occupied
       /\ IF last.parent # NoParent \/ ExistingBefore.parentAssociation # NoParent
          THEN /\ last.err.name = "Incompatible"
               /\ Status # "null"
               /\ last.err.cites = Status
          ELSE /\ last.err.name = "SameName"
               /\ last.err.cites = "none"

\* belongsTo(Post, as posts) with a parent met hasMany(Post, as posts) and
\* the error names the types
C3_Witness ==
  /\ Called /\ last.err.name = "Incompatible" /\ last.err.cites = "DIFFERENT_TYPES"
  /\ last.type = "BelongsTo" /\ ExistingBefore.associationType = "HasMany"

\* ------------------------------------------------------------------------
\* C4: when the resolved alias names an attribute of the source the call
\* fails with the naming-collision error, whatever the association type and
\* whether or not the alias is occupied; no hook and no construct runs and
\* the registry is unchanged.
C4_CollisionPrecedence ==
  (Normalized /\ AliasIsAttribute)
    => (/\ last.err.name = "NamingCollisionError"
        /\ ~HookInvoked /\ ~ConstructInvoked
        /\ associations = last.associationsBefore)

\* the alias named an attribute and was occupied as well
C4_Witness ==
  /\ Normalized /\ AliasIsAttribute /\ Occupied
  /\ last.err.name = "NamingCollisionError"

\* ------------------------------------------------------------------------
\* C5 (as stated): after a call that fails, at whatever step, the source's
\* registry is what it was before the call.
C5_NoPartialRegistration ==
  Failed => RegistryAfter = RegistryBefore

\* ------------------------------------------------------------------------
\* C6 (as stated): for an occupied alias and a classification other than
\* None the call succeeds, returning the occupant, if a parent is supplied
\* and the occupant has a parentAssociation; in every other case it fails
\* with an AssociationError.
C6_CompositeTolerance ==
  (Occupied /\ Status # "null")
    => IF last.parent # NoParent /\ ExistingBefore.parentAssociation # NoParent
       THEN last.err = NoError /\ last.association = ExistingBefore
       ELSE last.err.class = "AssociationError"

\* C6 (amended): for an occupied alias that is not an attribute of the
\* source and a classification other than None the call fails with an
\* AssociationError in every case, also when a parent is supplied and the
\* occupant has a parentAssociation.
C6_IncompatibleNeverTolerated ==
  (Occupied /\ Status # "null" /\ ~AliasIsAttribute)
    => (last.err.class = "AssociationError" /\ last.association = NoAssociation)

\* a leg of a composite met an incompatible leg of a composite and failed
C6_Witness ==
  /\ Occupied /\ Status = "DIFFERENT_OPTIONS" /\ ~AliasIsAttribute
  /\ last.parent # NoParent /\ ExistingBefore.parentAssociation # NoParent
  /\ last.err.class = "AssociationError"

\* ------------------------------------------------------------------------
\* the hook listeners did nothing that changes the course of the call
ListenersHarmless ==
  last.before.kind \in {"none", "setHooks"} /\ last.after.kind = "none"

C8_RegistrationOnSuccess ==
  (Succeeded /\ last.constructed)
    => (/\ Lookup(associations, last.source, Alias) = last.association
        /\ \A a \in (DOMAIN RegistryAfter \cup DOMAIN RegistryBefore) \ {Alias} :
              Lookup(associations, last.source, a)
                = Lookup(last.associationsBefore, last.source, a))

\* C8 (amended): after a successful call that constructed an association
\* the registry maps the alias that normalizedOptions.as holds when construct
\* is invoked - the alias produced by normalization unless the
\* beforeAssociate listener assigned another one - to the association
\* returned, and, registrations made by hook listeners apart, differs from
\* its value before the call in that entry only.
C8_RegisteredUnderAliasAtConstruct ==
  (Succeeded /\ last.constructed)
    => LET as == last.optionsAtReturn["as"].s
       IN /\ Lookup(associations, last.source, as) = last.association
          /\ last.association.as = as
          /\ last.association.id = nextId - 1
          /\ last.before.kind # "setAs" => as = Alias
          /\ as \notin DOMAIN RegistryBefore
          /\ ~last.hookWrites =>
               \A a \in (DOMAIN RegistryAfter \cup DOMAIN RegistryBefore) \ {as} :
                 Lookup(associations, last.source, a)
                   = Lookup(last.associationsBefore, last.source, a)
          /\ \A m \in ModelClasses \ {last.source} :
               associations[m] = last.associationsBefore[m]

\* the listener assigned another alias and the association was registered
\* under it
C8_Witness ==
  /\ Succeeded /\ last.constructed
  /\ last.optionsAtReturn["as"].s # Alias
  /\ Lookup(associations, last.source, last.optionsAtReturn["as"].s) = last.association
  /\ Lookup(associations, last.source, Alias) = NoAssociation

\* ------------------------------------------------------------------------
StepIndex(name) == CHOOSE i \in 1..Len(StepNames) : StepNames[i] = name
\* the steps a call may leave out without having failed
OptionalSteps == {"beforeAssociate", "construct", "afterAssociate"}
\* the steps at which an error of the given kind is thrown
ThrowingSteps(err) ==
  CASE err.name = "NotAModelError" -> {"isModelStatic"}
    [] err.name = "ModelNotInitializedError" ->
         {"assertAssociationModelIsDefined(source)", "assertAssociationModelIsDefined(target)"}
    [] err.name = "RenamedOptionError" -> {"normalizeOptions"}
    [] err.name = "NamingCollisionError" -> {"checkNamingCollision", "checkNamingCollision(2)"}
    [] err.name \in {"SameName", "Incompatible"} -> {"assertAssociationUnique"}
    [] err.name = "ConstructionFailed" -> {"construct"}
    [] err.class = "HookError" -> {err.name}
    [] OTHER -> {}

\* C9: the steps of a call occur in the order isModelStatic, source
\* initialised, target initialised, normalize, collision check, uniqueness
\* check, beforeAssociate, construct, afterAssociate, second collision
\* check; the step that fails is the last one taken; a hook is invoked
\* exactly when the call reaches it with normalizedOptions.hooks true, so a
\* call whose raw options have no hooks key invokes no hook.
C9_StepOrdering ==
  Called =>
    /\ Len(last.trace) >= 1
    /\ \A i \in 1..Len(last.trace) : \E j \in 1..Len(StepNames) : StepNames[j] = last.trace[i]
    /\ \A i \in 1..(Len(last.trace) - 1) :
          StepIndex(last.trace[i]) < StepIndex(last.trace[i + 1])
    /\ \A i \in 1..Len(last.trace) : \A j \in 1..(StepIndex(last.trace[i]) - 1) :
          StepNames[j] \in OptionalSteps \/ StepNames[j] \in Steps
    /\ Failed => last.trace[Len(last.trace)] \in ThrowingSteps(last.err)
    /\ Succeeded => last.trace[Len(last.trace)] = "checkNamingCollision(2)"
    /\ "beforeAssociate" \in Steps <=> (last.validated /\ HooksEnabled(last.normalized))
    /\ "afterAssociate" \in Steps
         <=> (/\ last.validated /\ HooksEnabled(last.optionsAtReturn)
              /\ (Failed => last.trace[Len(last.trace)]
                               \in {"afterAssociate", "checkNamingCollision(2)"}))
    /\ "hooks" \notin DOMAIN last.options => ~HookInvoked
    /\ last.hooksRun = Steps \cap {"beforeAssociate", "afterAssociate"}

\* a call took all ten steps
C9_Witness ==
  Succeeded /\ last.trace = StepNames

\* ------------------------------------------------------------------------
\* the uniqueness check let the call pass for an occupied alias
ReusePath == Occupied /\ last.validated

\* C10 (as stated): a call resolved by reusing the occupant returns it
\* without invoking beforeAssociate or afterAssociate, also when
\* normalizedOptions.hooks is true.
C10_NoHooksOnReuse ==
  ReusePath => (last.association = ExistingBefore /\ ~HookInvoked)

\* C10 (amended): on the reuse path beforeAssociate is invoked exactly when
\* normalizedOptions.hooks is true, and afterAssociate when the call reaches
\* it with hooks still true; the occupant is returned without any hook only
\* when normalizedOptions.hooks is false.
C10_HooksRunOnReuse ==
  ReusePath =>
    /\ "beforeAssociate" \in last.hooksRun <=> HooksEnabled(last.normalized)
    /\ (Succeeded /\ HooksEnabled(last.optionsAtReturn)) => "afterAssociate" \in last.hooksRun
    /\ ~HooksEnabled(last.normalized)
         => (Succeeded /\ last.association = ExistingBefore /\ ~HookInvoked
             /\ ~ConstructInvoked)

\* the occupant was returned after both hooks had run
C10_Witness ==
  /\ ReusePath /\ Succeeded /\ last.association = ExistingBefore
  /\ last.hooksRun = {"beforeAssociate", "afterAssociate"}
  /\ ~ConstructInvoked

\* ------------------------------------------------------------------------
\* C11: when construct throws, the call fails with an AssociationError whose
\* cause is the error construct threw and whose message names the parent
\* association when one was passed; when a beforeAssociate or afterAssociate
\* listener throws, the call fails with the listener's error itself.
C11_FailureWrapping ==
  Called =>
    /\ (ConstructInvoked /\ last.construct = "throw")
         => last.err = Err("AssociationError", "ConstructionFailed", "none",
                           "ConstructError", last.parent)
    /\ ("beforeAssociate" \in last.hooksRun /\ last.before.kind = "throw")
         => last.err = Err("HookError", "beforeAssociate", "none", "none", "none")
    /\ ("afterAssociate" \in last.hooksRun /\ last.after.kind = "throw")
         => last.err = Err("HookError", "afterAssociate", "none", "none", "none")

\* construct threw in a call made for a parent association
C11_Witness ==
  /\ Called /\ ConstructInvoked /\ last.construct = "throw"
  /\ last.parent # NoParent
  /\ last.err.class = "AssociationError" /\ last.err.cause = "ConstructError"
  /\ last.err.parent = last.parent

\* ------------------------------------------------------------------------
\* the association the call answered with was rated by the uniqueness check
\* of this call (it occupied the resolved alias when the call was made) or
\* was constructed by this call
CheckedOrConstructed ==
  \/ last.constructed
  \/ (Occupied /\ last.association = ExistingBefore)

\* C20: the association a successful call returns has the requested
\* association type and a target that is the same initial model as the
\* requested target, whatever earlier calls and the beforeAssociate
\* listener did; an association the uniqueness check of this call never
\* rated is never returned.
C20_ReturnedMatchesRequest ==
  Succeeded =>
    /\ last.association.associationType = last.type
    /\ isSameInitialModel(last.association.target, last.target)
    /\ CheckedOrConstructed

\* ------------------------------------------------------------------------
\* C12: the classifier answers DIFFERENT_TYPES when the two association
\* types differ, whatever the targets and options; otherwise
\* DIFFERENT_TARGETS when the targets are not the same initial model;
\* otherwise DIFFERENT_OPTIONS when the two option sets differ in some key
\* other than inverse; otherwise null.  So two requests that differ in
\* inverse only are rated null.  The call writes neither the registry nor
\* either option set.
C12_ClassifierResult ==
  Returned("getAssociationsIncompatibilityStatus") =>
    LET existing == helper.args.existing
        old == existing.options
        new == helper.args.options
        compared(o) == DOMAIN o \ {"inverse"}
        typesDiffer == existing.associationType # helper.args.type
        targetsDiffer == initialModel(existing.target) # initialModel(helper.args.target)
        optionsDiffer ==
          \/ compared(old) # compared(new)
          \/ \E k \in compared(old) \cap compared(new) : old[k] # new[k]
    IN /\ helper.result =
            (IF typesDiffer THEN "DIFFERENT_TYPES"
             ELSE IF targetsDiffer THEN "DIFFERENT_TARGETS"
             ELSE IF optionsDiffer THEN "DIFFERENT_OPTIONS"
             ELSE "null")
       /\ helper.after = helper.args
       /\ associations = [m \in ModelClasses |-> << >>]

\* two requests for a copy of the same model that differ in inverse only
\* were rated compatible
C12_Witness ==
  /\ Returned("getAssociationsIncompatibilityStatus")
  /\ helper.result = "null"
  /\ helper.args.existing.options # helper.args.options
  /\ helper.args.existing.target # helper.args.target

\* ------------------------------------------------------------------------
\* the raw foreign key names the key: it is a string, or an object whose
\* name or fieldName is defined
NameGiven(foreignKey) ==
  \/ foreignKey.t = "string"
  \/ /\ foreignKey.t = "object"
     /\ (Get(foreignKey.o, "name") # Undefined \/ Get(foreignKey.o, "fieldName") # Undefined)

\* C13 (as stated): whatever the raw foreign key (absent, a string, an
\* object with any subset of name, fieldName and other keys), the normalized
\* foreign key has a name, so every normalized options object carries
\* foreignKey.name.
C13_NameAlwaysPresent ==
  /\ Returned("normalizeForeignKeyOptions")
       => (helper.result.t = "object" /\ "name" \in DOMAIN helper.result.o)
  /\ (Returned("normalizeBaseAssociationOptions") /\ helper.result.err = NoError)
       => "name" \in DOMAIN Get(helper.result.options, "foreignKey").o

\* C13 (amended): the normalized foreign key is always an object; it has a
\* name exactly when the raw foreign key is a string or an object whose name
\* or fieldName is defined.  An absent foreign key and an object with
\* neither normalize to an object without name, and every normalized
\* options object carries foreignKey, with a name in those cases only.
C13_NamePresentWhenGiven ==
  /\ Returned("normalizeForeignKeyOptions")
       => /\ helper.result.t = "object"
          /\ "name" \in DOMAIN helper.result.o <=> NameGiven(helper.args.foreignKey)
          /\ Get(helper.result.o, "name").t \in {"undefined", "string"}
  /\ (Returned("normalizeBaseAssociationOptions") /\ helper.result.err = NoError)
       => /\ "foreignKey" \in DOMAIN helper.result.options
          /\ helper.result.options["foreignKey"].t = "object"
          /\ "name" \in DOMAIN helper.result.options["foreignKey"].o
               <=> NameGiven(Get(helper.args.options, "foreignKey"))

\* an object without name got its name from fieldName
C13_Witness ==
  /\ Returned("normalizeForeignKeyOptions")
  /\ helper.args.foreignKey.t = "object"
  /\ "name" \notin DOMAIN helper.args.foreignKey.o
  /\ Get(helper.args.foreignKey.o, "fieldName") # Undefined
  /\ Get(helper.result.o, "name") = helper.args.foreignKey.o["fieldName"]

\* ------------------------------------------------------------------------
\* C14: a string s and the object { name: s } normalize to equal foreign
\* keys, equal to { name: s }; for an object the normalized name is its name
\* when that is defined and its fieldName otherwise; the result has no
\* fieldName key and no key whose value is undefined; normalizing a
\* normalized foreign key returns an equal object.
C14_ForeignKeyRoundTrip ==
  Returned("normalizeForeignKeyOptions") =>
    LET foreignKey == helper.args.foreignKey
        normalized == helper.result
    IN /\ foreignKey.t = "string"
            => /\ normalized = Obj("name" :> foreignKey)
               /\ normalizeForeignKeyOptions(Obj("name" :> foreignKey)) = normalized
       /\ foreignKey.t = "object"
            => Get(normalized.o, "name") =
                 (IF Get(foreignKey.o, "name") # Undefined
                  THEN foreignKey.o["name"]
                  ELSE Get(foreignKey.o, "fieldName"))
       /\ normalized.t = "object"
       /\ "fieldName" \notin DOMAIN normalized.o
       /\ \A k \in DOMAIN normalized.o : normalized.o[k] # Undefined
       /\ normalizeForeignKeyOptions(normalized) = normalized

\* an object with name undefined, a fieldName and an undefined onDelete was
\* normalized to { name: fieldName }
C14_Witness ==
  /\ Returned("normalizeForeignKeyOptions")
  /\ helper.args.foreignKey.t = "object"
  /\ DOMAIN helper.args.foreignKey.o = {"name", "fieldName", "onDelete"}
  /\ helper.args.foreignKey.o["name"] = Undefined
  /\ helper.args.foreignKey.o["onDelete"] = Undefined
  /\ helper.args.foreignKey.o["fieldName"] # Undefined
  /\ helper.result = Obj("name" :> helper.args.foreignKey.o["fieldName"])

\* ------------------------------------------------------------------------
\* normalizeBaseAssociationOptions returned: its arguments and its result
NormalizeReturned ==
  Returned("normalizeBaseAssociationOptions") /\ helper.result.err = NoError
RawAs == Get(helper.args.options, "as")
Multi == isMultiAssociation(helper.args.type)
ResolvedAs == helper.result.options["as"]
ResolvedName == helper.result.options["name"].o
TargetName == modelName(helper.args.target)

\* C15 (as stated): for a string alias s the registry key is s, for multi
\* and single kinds; the singular of a multi kind is singularize(s) and the
\* plural of a single kind is pluralize(s).  For an object alias the key is
\* its plural for multi kinds and its singular otherwise, and name is the
\* object.  With no alias the key is the target's default plural for multi
\* kinds and its default singular otherwise.
C15_AliasResolution ==
  NormalizeReturned =>
    /\ RawAs.t = "string"
         => /\ ResolvedAs = RawAs
            /\ Multi => ResolvedName["singular"] = Str(singularize(RawAs.s))
            /\ ~Multi => ResolvedName["plural"] = Str(pluralize(RawAs.s))
    /\ RawAs.t = "object"
         => /\ ResolvedAs = (IF Multi THEN RawAs.o["plural"] ELSE RawAs.o["singular"])
            /\ helper.result.options["name"] = RawAs
    /\ RawAs.t = "undefined"
         => ResolvedAs = Str(IF Multi THEN TargetName.plural ELSE TargetName.singular)

\* C15 (amended): the same for a string alias that is not empty; an empty
\* string is treated as no alias, so the key is the target's default plural
\* for multi kinds and its default singular otherwise.
C15_AliasResolutionNonEmpty ==
  NormalizeReturned =>
    /\ (RawAs.t = "string" /\ RawAs.s # "")
         => /\ ResolvedAs = RawAs
            /\ Multi => ResolvedName["singular"] = Str(singularize(RawAs.s))
            /\ ~Multi => ResolvedName["plural"] = Str(pluralize(RawAs.s))
    /\ RawAs.t = "object"
         => /\ ResolvedAs = (IF Multi THEN RawAs.o["plural"] ELSE RawAs.o["singular"])
            /\ helper.result.options["name"] = RawAs
    /\ (RawAs.t = "undefined" \/ (RawAs.t = "string" /\ RawAs.s = ""))
         => ResolvedAs = Str(IF Multi THEN TargetName.plural ELSE TargetName.singular)

\* an object alias given to a multi kind was resolved to its plural
C15_Witness ==
  /\ NormalizeReturned /\ Multi /\ RawAs.t = "object"
  /\ ResolvedAs = RawAs.o["plural"] /\ ResolvedAs # RawAs.o["singular"]
  /\ helper.result.options["name"] = RawAs

\* ------------------------------------------------------------------------
\* C16 (as stated): for a string alias s given to a multi kind, name.plural
\* is pluralize(s) and name.singular is singularize(s), also when
\* pluralize(s) differs from s.  Read for the aliases that are not empty
\* (an empty alias counts as none, see C15).
C16_PluralDerivation ==
  (NormalizeReturned /\ Multi /\ RawAs.t = "string" /\ RawAs.s # "")
    => /\ ResolvedName["plural"] = Str(pluralize(RawAs.s))
       /\ ResolvedName["singular"] = Str(singularize(RawAs.s))

\* C16 (amended): for a non-empty string alias s given to a multi kind,
\* name.plural is s itself and name.singular is singularize(s); name.plural
\* is pluralize(s) only when s is its own plural.  (A single kind keeps s as
\* name.singular and takes pluralize(s) as name.plural.)
C16_PluralIsTheAlias ==
  (NormalizeReturned /\ RawAs.t = "string" /\ RawAs.s # "")
    => /\ Multi => /\ ResolvedName["plural"] = RawAs
                   /\ ResolvedName["singular"] = Str(singularize(RawAs.s))
                   /\ ResolvedName["plural"] = Str(pluralize(RawAs.s))
                        <=> pluralize(RawAs.s) = RawAs.s
       /\ ~Multi => /\ ResolvedName["singular"] = RawAs
                    /\ ResolvedName["plural"] = Str(pluralize(RawAs.s))

\* a multi kind was given a singular word as alias and kept it as name.plural
C16_Witness ==
  /\ NormalizeReturned /\ Multi /\ RawAs.t = "string" /\ RawAs.s # ""
  /\ pluralize(RawAs.s) # RawAs.s
  /\ ResolvedName["plural"] = RawAs

\* ------------------------------------------------------------------------
\* addForeignKeyConstraints returned: newAttribute before and after the call
ConstraintsOn ==
  /\ Returned("addForeignKeyConstraints")
  /\ Get(helper.args.options, "foreignKeyConstraints") # Bool(FALSE)
ConstraintsOff ==
  /\ Returned("addForeignKeyConstraints")
  /\ Get(helper.args.options, "foreignKeyConstraints") = Bool(FALSE)
AttributeBefore == helper.args.newAttribute
AttributeAfter == helper.after.newAttribute
\* the source has more than one primary key and the key is one of them
\* (primary keys by column name: field when set, else the attribute name)
KeyOfCompositePrimaryKey ==
  /\ Len(primaryKeys(helper.args.source)) > 1
  /\ includes(primaryKeys(helper.args.source), helper.args.key)
\* onDelete and onUpdate hold the caller's value, else the default
DefaultsApplied ==
  /\ Get(AttributeAfter, "onDelete") =
       (IF "onDelete" \in DOMAIN AttributeBefore THEN AttributeBefore["onDelete"]
        ELSE IF Get(AttributeBefore, "allowNull") # Bool(FALSE) THEN Str("SET NULL")
        ELSE Str("CASCADE"))
  /\ Get(AttributeAfter, "onUpdate") =
       (IF "onUpdate" \in DOMAIN AttributeBefore THEN AttributeBefore["onUpdate"]
        ELSE Str("CASCADE"))

ConstraintFrame ==
  /\ DOMAIN AttributeBefore \subseteq DOMAIN AttributeAfter
  /\ DOMAIN AttributeAfter \subseteq
       DOMAIN AttributeBefore \cup {"references", "onDelete", "onUpdate"}
  /\ \A k \in DOMAIN AttributeBefore \ {"references", "onDelete", "onUpdate"} :
       AttributeAfter[k] = AttributeBefore[k]
  /\ helper.after.source = helper.args.source
  /\ helper.after.options = helper.args.options

====
